---- MODULE Spec2Model ----
(***************************************************************************)
(* Model of the Databricks SQL client demo console                         *)
(* (examples/python/databricks-example-console/src/databricks_example/     *)
(* app.py): get_configuration, the demo-mode run and the interactive menu  *)
(* loop of main(), the streaming action and the result-table renderer.     *)
(*                                                                         *)
(* Text that the program computes (cell values, DEMO_LIMIT, the number put *)
(* into an SQL statement) is a sequence of character codes; text that the  *)
(* program only passes along (URLs, tokens, fixed messages) is a string.   *)
(* An optional value is <<>> (None) or <<v>>.                              *)
(***************************************************************************)
EXTENDS Integers, Sequences, FiniteSets, TLC

VARIABLES env, pc, config, client, warehouse_id, console, prompted, sent,
          result, stream, exit_code, failed, raised, choice, demo_limit,
          credential_raised

vars == <<env, pc, config, client, warehouse_id, console, prompted, sent,
          result, stream, exit_code, failed, raised, choice, demo_limit,
          credential_raised>>

(***************************************************************************)
(* Bounds of the model.                                                    *)
(***************************************************************************)
MaxStrLen == 32
MaxRows == 12
MaxCols == 11
MaxStream == 2

(***************************************************************************)
(* Constants of the program.                                               *)
(***************************************************************************)
DisplayRowLimit == 10
max_columns == 10
CellLimit == 30
CellKeep == 27
StreamLimitDefault == 100

None == <<>>
Some(v) == <<v>>
IsNone(o) == o = <<>>
Get(o) == o[1]

Min(a, b) == IF a < b THEN a ELSE b

(***************************************************************************)
(* Python text operations.                                                 *)
(***************************************************************************)
Ch == [dot |-> 46, minus |-> 45, nine |-> 57, plus |-> 43, space |-> 32,
       underscore |-> 95, zero |-> 48]
Digit(d) == Ch.zero + d
IsDigit(c) == c >= Ch.zero /\ c <= Ch.nine
Minus == Ch.minus
Plus == Ch.plus
Underscore == Ch.underscore
Space == Ch.space
Dot == Ch.dot

\* s[:n]
Prefix(s, n) == SubSeq(s, 1, Min(n, Len(s)))

RECURSIVE NatToStr(_)
NatToStr(n) == IF n < 10 THEN <<Digit(n)>>
               ELSE NatToStr(n \div 10) \o <<Digit(n % 10)>>

\* str(n) and f"{n}" of an int
IntToStr(n) == IF n < 0 THEN <<Minus>> \o NatToStr(-n) ELSE NatToStr(n)

RECURSIVE StripLeft(_)
StripLeft(s) == IF s # <<>> /\ Head(s) = Space THEN StripLeft(Tail(s)) ELSE s

RECURSIVE StripRight(_)
StripRight(s) == IF s # <<>> /\ s[Len(s)] = Space
                 THEN StripRight(SubSeq(s, 1, Len(s) - 1)) ELSE s

RECURSIVE DigitsValue(_, _)
DigitsValue(s, acc) ==
    IF s = <<>> THEN acc
    ELSE IF Head(s) = Underscore THEN DigitsValue(Tail(s), acc)
    ELSE DigitsValue(Tail(s), acc * 10 + (Head(s) - Ch.zero))

\* digits, with single underscores allowed between digits
WellFormedDigits(s) ==
    /\ s # <<>>
    /\ IsDigit(s[1]) /\ IsDigit(s[Len(s)])
    /\ \A i \in 1..Len(s) : IsDigit(s[i]) \/ s[i] = Underscore
    /\ \A i \in 1..(Len(s) - 1) : ~(s[i] = Underscore /\ s[i + 1] = Underscore)

\* int(s): [ok |-> FALSE] stands for ValueError
ParseInt(s) ==
    LET t == StripRight(StripLeft(s))
        signed == t # <<>> /\ Head(t) \in {Minus, Plus}
        body == IF signed THEN Tail(t) ELSE t
    IN IF WellFormedDigits(body)
       THEN [n |-> IF signed /\ Head(t) = Minus THEN -DigitsValue(body, 0)
                   ELSE DigitsValue(body, 0),
             ok |-> TRUE]
       ELSE [n |-> 0, ok |-> FALSE]

(***************************************************************************)
(* Values of a result cell: None, a str or an int.                         *)
(***************************************************************************)
NoneValue == [t |-> "none"]
StrValue(s) == [s |-> s, t |-> "str"]
IntValue(n) == [n |-> n, t |-> "int"]

\* str(value)
StrOf(value) == IF value.t = "str" THEN value.s ELSE IntToStr(value.n)

Ellipsis == <<Dot, Dot, Dot>>
NullText == <<78, 85, 76, 76>>

\* one cell of a rendered row: its style and its text
NullCell == [style |-> "dim", text |-> NullText]
PlainCell(s) == [style |-> "", text |-> s]

\* A plausible slip: the cut keeps as many characters as the limit.
CellTextKeepsLimit(value) ==
    IF value = NoneValue \/ value = StrValue(<<>>)
    THEN NullCell
    ELSE LET str_value == StrOf(value)
         IN PlainCell(IF Len(str_value) > CellLimit
                      THEN Prefix(str_value, CellLimit) \o Ellipsis
                      ELSE str_value)

\* display_results_table, the body of the loop over the columns of a row
CellText(value) ==
    IF value = NoneValue \/ value = StrValue(<<>>)
    THEN NullCell
    ELSE LET str_value == StrOf(value)
         IN PlainCell(IF Len(str_value) > CellLimit
                      THEN Prefix(str_value, CellKeep) \o Ellipsis
                      ELSE str_value)

\* row.get(col_name) of a dict
RowGet(row, col_name) == IF col_name \in DOMAIN row THEN row[col_name] ELSE NoneValue

RenderRow(row, columns_to_show) ==
    [c \in 1..Len(columns_to_show) |-> CellText(RowGet(row, columns_to_show[c][1]))]

\* A plausible slip: the slice is one row too long.
RowsToShowOffByOne(n) == Min(DisplayRowLimit + 1, n)

\* rows_to_show = min(10, len(result.rows))
RowsToShow(n) == Min(DisplayRowLimit, n)

\* What display_results_table prints, in order.
DisplayResultsTable(res) ==
    IF res.columns = <<>> THEN <<[msg |-> "No columns in result"]>>
    ELSE IF res.rows = <<>> THEN <<[msg |-> "No rows in result"]>>
    ELSE LET columns_to_show == Prefix(res.columns, max_columns)
             rows_to_show == RowsToShow(Len(res.rows))
             table == [body |-> [r \in 1..rows_to_show |->
                                   RenderRow(res.rows[r], columns_to_show)],
                       msg |-> "table",
                       header |-> columns_to_show]
         IN <<table>>
            \o (IF Len(res.columns) > max_columns
                THEN <<[a |-> max_columns, b |-> Len(res.columns),
                        msg |-> "Showing of columns"]>>
                ELSE <<>>)
            \o (IF Len(res.rows) > rows_to_show
                THEN <<[a |-> rows_to_show, b |-> Len(res.rows),
                        msg |-> "Showing of rows"]>>
                ELSE <<>>)

(***************************************************************************)
(* The SDK and the credential library, as this program uses them.          *)
(***************************************************************************)
\* "not x" of an optional str: None or the empty string
Falsy(o) == IsNone(o) \/ Get(o) = ""

\* DatabricksConfig(workspace_url, credential, access_token): the constructor
\* refuses a configuration with neither a credential nor a token.
DatabricksConfig(workspace_url, credential, access_token) ==
    IF IsNone(credential) /\ Falsy(access_token)
    THEN [config |-> None, ok |-> FALSE]
    ELSE [config |-> Some([workspace_url |-> workspace_url,
                           credential |-> credential,
                           access_token |-> access_token]),
          ok |-> TRUE]

\* SqlWarehouseClient(config)
SqlWarehouseClient(cfg) == [config |-> cfg]

\* DatabricksAuthenticationException is a DatabricksException
ExceptionKinds == {"auth", "databricks", "other"}
IsDatabricksException(kind) == kind \in {"auth", "databricks"}
IsAuthenticationException(kind) == kind = "auth"

(***************************************************************************)
(* get_configuration.  The inputs besides the environment: what the user   *)
(* types at each prompt, and whether the credential constructor raises.    *)
(* The value: whether an exception leaves the function, the configuration  *)
(* returned, the prompts issued and the lines printed.                     *)
(***************************************************************************)
\* A plausible slip: the token read from the environment is passed along
\* with the credential.
CredentialConfigWithToken(workspace_url, credential, access_token_env) ==
    DatabricksConfig(workspace_url, Some(credential), access_token_env)

\* DatabricksConfig(workspace_url=workspace_url, credential=credential)
CredentialConfig(workspace_url, credential, access_token_env) ==
    DatabricksConfig(workspace_url, Some(credential), None)

\* DatabricksConfig(workspace_url=workspace_url, access_token=access_token)
TokenConfig(workspace_url, access_token) ==
    DatabricksConfig(workspace_url, None, access_token)

GetConfiguration(e, url_answer, token_answer, credential_raises) ==
    LET workspace_url_env == e.DATABRICKS_WORKSPACE_URL
        access_token_env == e.DATABRICKS_TOKEN
        demo_mode == e.DEMO_MODE = Some("true")
        ask_url == Falsy(workspace_url_env)
        workspace_url == IF ask_url THEN url_answer ELSE Get(workspace_url_env)
        url_prompts == IF ask_url THEN {"workspace URL"} ELSE {}
        url_console == IF ask_url
                       THEN <<[msg |-> "DATABRICKS_WORKSPACE_URL not set"]>>
                       ELSE <<>>
    IN IF demo_mode
       THEN \* InteractiveBrowserCredential(), then DatabricksConfig, outside any try
            IF credential_raises
            THEN [config |-> None, console |-> url_console, raised |-> TRUE,
                  credential_raised |-> TRUE, prompts |-> url_prompts]
            ELSE LET made == CredentialConfig(workspace_url,
                                              "InteractiveBrowserCredential",
                                              access_token_env)
                 IN [config |-> made.config, console |-> url_console,
                     raised |-> ~made.ok,
                     credential_raised |-> FALSE, prompts |-> url_prompts]
       ELSE LET tried == IF credential_raises THEN [config |-> None, ok |-> FALSE]
                         ELSE CredentialConfig(workspace_url, "DefaultAzureCredential",
                                               access_token_env)
            IN IF tried.ok
               THEN [config |-> tried.config, console |-> url_console,
                     raised |-> FALSE,
                     credential_raised |-> FALSE, prompts |-> url_prompts]
               ELSE \* except Exception
                    LET ask_token == Falsy(access_token_env)
                        access_token == IF ask_token THEN Some(token_answer)
                                        ELSE access_token_env
                        made == TokenConfig(workspace_url, access_token)
                    IN [config |-> made.config, console |-> url_console \o
                                    (IF ask_token
                                     THEN <<[msg |-> "Azure Entra failed and DATABRICKS_TOKEN not set"]>>
                                     ELSE <<>>),
                        raised |-> ~made.ok,
                        credential_raised |-> TRUE,
                        prompts |-> url_prompts \cup
                                    (IF ask_token THEN {"access token"} ELSE {})]

\* get_auth_method_name
GetAuthMethodName(cfg) ==
    IF IsNone(cfg.credential) THEN "Personal Access Token"
    ELSE IF Get(cfg.credential) = "InteractiveBrowserCredential"
         THEN "Azure Entra ID (Interactive Browser)"
    ELSE IF Get(cfg.credential) = "DefaultAzureCredential"
         THEN "Azure Entra ID (Default Credential)"
    ELSE "Azure Entra ID (other)"

(***************************************************************************)
(* The menu actions.  An SQL statement is its fixed text and the number    *)
(* formatted into it (empty when there is none).  outcome is what the      *)
(* client does with the statement: [kind |-> "ok", result |-> r] or        *)
(* [kind |-> k] for an exception of kind k.  The value of each operator:   *)
(* the exception that leaves the function (None when it returns), the      *)
(* lines printed, the statements sent and the result received.             *)
(***************************************************************************)
Sql(text, number) == [text |-> text, number |-> number]

QuickSql == Sql("SELECT current_timestamp() as timestamp, current_user() as user, current_database() as database LIMIT 10", <<>>)
\* (the back-quotes around the names of the statement are left out)
DatasetSqlText == "SELECT * FROM samples.accuweather.forecast_daily_calendar_metric LIMIT "
TripsSqlText == "SELECT * FROM samples.nyctaxi.trips LIMIT "
TablesSql == Sql("SHOW TABLES", <<>>)

Returned(printed, statements, res) ==
    [console |-> printed, sent |-> statements, result |-> res, raised |-> None]
Raised(kind, printed, statements) ==
    [console |-> printed, sent |-> statements, result |-> None, raised |-> Some(kind)]

\* execute_quick_query
ExecuteQuickQuery(outcome) ==
    LET before == <<[msg |-> "Executing", sql |-> QuickSql]>>
    IN IF outcome.kind # "ok" THEN Raised(outcome.kind, before, <<QuickSql>>)
       ELSE Returned(before \o DisplayResultsTable(outcome.result)
                            \o <<[a |-> Len(outcome.result.rows), msg |-> "Retrieved rows"]>>,
                     <<QuickSql>>, Some(outcome.result))

\* os.getenv("DEMO_QUERY") or f"SELECT ... LIMIT {limit}"
StreamDatasetDemoSql(demo_query, limit) ==
    IF Falsy(demo_query) THEN Sql(DatasetSqlText, IntToStr(limit))
    ELSE Sql(Get(demo_query), <<>>)

\* stream_dataset_demo
StreamDatasetDemo(demo_query, limit, outcome) ==
    LET sql == StreamDatasetDemoSql(demo_query, limit)
        before == <<[msg |-> "Executing", sql |-> sql]>>
    IN IF outcome.kind # "ok" THEN Raised(outcome.kind, before, <<sql>>)
       ELSE Returned(before
                       \o <<[a |-> Len(outcome.result.rows), msg |-> "Retrieved rows"],
                            [a |-> Min(DisplayRowLimit, Len(outcome.result.rows)),
                             msg |-> "First rows"]>>
                       \o DisplayResultsTable(outcome.result),
                     <<sql>>, Some(outcome.result))

\* explore_tables
ExploreTables(outcome) ==
    IF outcome.kind # "ok" THEN Raised(outcome.kind, <<>>, <<TablesSql>>)
    ELSE IF outcome.result.rows = <<>>
         THEN Returned(<<[msg |-> "No tables found in current database"]>>,
                       <<TablesSql>>, Some(outcome.result))
    ELSE Returned(<<[a |-> Min(20, Len(outcome.result.rows)),
                     msg |-> "Available Tables"]>>
                    \o (IF Len(outcome.result.rows) > 20
                        THEN <<[a |-> 20, b |-> Len(outcome.result.rows),
                                msg |-> "Showing of tables"]>>
                        ELSE <<>>)
                    \o <<[a |-> Len(outcome.result.rows), msg |-> "Retrieved rows"]>>,
                  <<TablesSql>>, Some(outcome.result))

\* execute_custom_query; typed is the statement entered at the prompt
ExecuteCustomQuery(typed, outcome) ==
    LET sql == Sql(typed, <<>>)
    IN IF outcome.kind # "ok" THEN Raised(outcome.kind, <<>>, <<sql>>)
       ELSE Returned(DisplayResultsTable(outcome.result)
                       \o <<[a |-> Len(outcome.result.rows), msg |-> "Retrieved rows"]>>,
                     <<sql>>, Some(outcome.result))

\* show_configuration_info; fails stands for an attribute the configuration lacks
ShowConfigurationInfo(cfg, wh, fails) ==
    IF fails THEN Raised("other", <<>>, <<>>)
    ELSE Returned(<<[warehouse_id |-> wh, msg |-> "Configuration",
                     workspace_url |-> cfg.workspace_url, authentication |-> GetAuthMethodName(cfg)]>>,
                  <<>>, None)

\* the three except clauses of main, in their order
ErrorLine(kind) ==
    IF IsAuthenticationException(kind) THEN [msg |-> "Authentication failed"]
    ELSE IF IsDatabricksException(kind) THEN [msg |-> "Databricks error"]
    ELSE [msg |-> "Error"]

ErrorLines == {ErrorLine(k) : k \in ExceptionKinds}

(***************************************************************************)
(* The inputs: the environment of the process, what the user types, what   *)
(* the client returns.                                                     *)
(***************************************************************************)
Text(n) == [i \in 1..n |-> 96 + i]

ColName(c) == <<99>> \o IntToStr(c)

\* A result of nc columns and nr rows: row r holds r in every column, but
\* for the first column of row at, which holds v.
MakeResult(nc, nr, v, at) ==
    [columns |-> [c \in 1..nc |-> <<ColName(c), "string">>],
     rows |-> [r \in 1..nr |->
                 [name \in {ColName(c) : c \in 1..nc} |->
                    IF r = at /\ name = ColName(1) THEN v ELSE IntValue(r)]]]

\* what execute_query may return to main
ClientResults ==
    {MakeResult(nc, nr, IntValue(1), 1) : nc \in {0, 1}, nr \in {0, DisplayRowLimit + 1}}

Outcomes == {[kind |-> k] : k \in ExceptionKinds}
            \cup {[result |-> r, kind |-> "ok"] : r \in ClientResults}

DemoLimitTexts ==
    {<<>>, IntToStr(5), Text(3), <<Space, Digit(1), Underscore, Digit(2), Space>>}

Environments ==
    [DATABRICKS_WORKSPACE_URL : {None, Some("https://adb.example")},
     DATABRICKS_TOKEN : {None, Some(""), Some("dapi-env")},
     DATABRICKS_WAREHOUSE_ID : {None, Some("wh-env")},
     DEMO_MODE : {None, Some("true")},
     DEMO_QUERY : {None, Some(""), Some("SELECT 42")},
     DEMO_LIMIT : {None} \cup {Some(t) : t \in DemoLimitTexts}]

UrlAnswers == {"https://typed.example"}
TokenAnswers == {"", "dapi-typed"}
WarehouseAnswers == {"wh-typed"}
SqlAnswers == {"SELECT 1 as test", "SELECT x"}
LimitAnswers == {StreamLimitDefault, 2}

NoStream == [limit |-> 0, completed |-> 0, row_count |-> 0, yielded |-> 0]

(***************************************************************************)
(* main().  pc is the place main has reached; console, sent and prompted   *)
(* record what was printed, which statements went to the client and which  *)
(* prompts were issued.  In the menu loop console and sent are kept since  *)
(* the last choice was entered, and so is prompted.  failed records what   *)
(* has failed so far in the run: the configuration, a function that sent a *)
(* statement to the client ("query"), or another step.  exit_code is the   *)
(* status the process ends with: what main returns, or 1 when an exception *)
(* leaves main.                                                            *)
(***************************************************************************)
Banner == <<[msg |-> "DATABRICKS SQL CLIENT DEMO"]>>
MenuLines == <<[msg |-> "What would you like to do?"]>>

InitCommon ==
    /\ config = None
    /\ client = None
    /\ warehouse_id = None
    /\ demo_limit = None
    /\ console = <<>>
    /\ prompted = {}
    /\ sent = <<>>
    /\ stream = NoStream
    /\ exit_code = None
    /\ failed = {}
    /\ raised = None
    /\ choice = None
    /\ credential_raised = FALSE

Init ==
    /\ env \in Environments
    /\ pc = "start"
    /\ result = None
    /\ InitCommon

\* lines 254-266: the banner, get_configuration, the client
Configure ==
    /\ pc = "start"
    /\ \E url_answer \in UrlAnswers, token_answer \in TokenAnswers,
          credential_raises \in BOOLEAN :
         LET got == GetConfiguration(env, url_answer, token_answer, credential_raises)
         IN /\ prompted' = prompted \cup got.prompts
            /\ credential_raised' = got.credential_raised
            /\ IF got.raised
               THEN \* the exception leaves main
                    /\ console' = Banner \o got.console \o <<[msg |-> "Traceback"]>>
                    /\ pc' = "done"
                    /\ exit_code' = Some(1)
                    /\ failed' = failed \cup {"configuration"}
                    /\ raised' = Some("other")
                    /\ UNCHANGED <<config, client>>
               ELSE IF IsNone(got.config)
               THEN /\ console' = Banner \o got.console
                                    \o <<[msg |-> "Configuration failed"]>>
                    /\ pc' = "done"
                    /\ exit_code' = Some(1)
                    /\ failed' = failed \cup {"configuration"}
                    /\ UNCHANGED <<config, client, raised>>
               ELSE /\ console' = Banner \o got.console
                    /\ config' = got.config
                    /\ client' = Some(SqlWarehouseClient(Get(got.config)))
                    /\ pc' = "warehouse"
                    /\ UNCHANGED <<exit_code, failed, raised>>
    /\ UNCHANGED <<env, warehouse_id, demo_limit, sent, result, stream, choice>>

\* lines 269-286 and, outside demo mode, the first pass of lines 316-325
GetWarehouseId ==
    /\ pc = "warehouse"
    /\ \E answer \in WarehouseAnswers :
         LET ask == Falsy(env.DATABRICKS_WAREHOUSE_ID)
             demo_mode == env.DEMO_MODE = Some("true")
             connected == <<[msg |-> "Connected to",
                             workspace_url |-> Get(config).workspace_url],
                            [msg |-> "Authentication",
                             authentication |-> GetAuthMethodName(Get(config))]>>
         IN /\ warehouse_id' = IF ask THEN Some(answer) ELSE env.DATABRICKS_WAREHOUSE_ID
            /\ prompted' = IF ask THEN prompted \cup {"SQL Warehouse ID"} ELSE prompted
            /\ IF demo_mode
               THEN /\ console' = console \o connected
                                    \o <<[msg |-> "Running in demo mode (non-interactive)"]>>
                    /\ pc' = "demo_info"
               ELSE /\ console' = console \o connected \o MenuLines
                    /\ pc' = "menu"
    /\ UNCHANGED <<credential_raised, env, config, client, demo_limit, sent,
                   result, stream, exit_code, failed, raised, choice>>

(***************************************************************************)
(* Demo mode, lines 288-312: one try block of three steps.                 *)
(***************************************************************************)
\* A plausible slip: the failure is printed and the run goes on.
DemoExceptGoesOn(kind, next) ==
    [pc |-> next, console |-> <<ErrorLine(kind)>>, exit_code |-> None]

\* the except clauses of the demo run: print, return 1
DemoExcept(kind, next) ==
    [pc |-> "done", console |-> <<ErrorLine(kind)>>, exit_code |-> Some(1)]

\* A plausible slip: the default is that of the interactive streaming prompt.
DemoLimitTextOfStream(e) == IF IsNone(e.DEMO_LIMIT) THEN IntToStr(StreamLimitDefault)
                            ELSE Get(e.DEMO_LIMIT)

\* os.getenv("DEMO_LIMIT", "10")
DemoLimitText(e) == IF IsNone(e.DEMO_LIMIT) THEN <<Digit(1), Digit(0)>>
                    ELSE Get(e.DEMO_LIMIT)

\* the rest of a step once the function it calls has raised or returned
DemoStep(header, r, next) ==
    IF IsNone(r.raised)
    THEN /\ console' = console \o header \o r.console
         /\ pc' = next
         /\ UNCHANGED <<exit_code, failed>>
    ELSE LET handled == DemoExcept(Get(r.raised), next)
         IN /\ console' = console \o header \o r.console \o handled.console
            /\ pc' = handled.pc
            /\ exit_code' = handled.exit_code
            /\ failed' = failed \cup {IF r.sent # <<>> THEN "query" ELSE "step"}

\* lines 289-291
DemoConfigurationInfo ==
    /\ pc = "demo_info"
    /\ \E fails \in BOOLEAN :
         LET r == ShowConfigurationInfo(Get(config), Get(warehouse_id), fails)
         IN /\ DemoStep(<<[msg |-> "Configuration Info"]>>, r, "demo_quick")
            /\ raised' = r.raised
    /\ UNCHANGED <<credential_raised, env, config, client, warehouse_id,
                   demo_limit, prompted, sent, result, stream, choice>>

\* lines 293-295
DemoQuickQuery ==
    /\ pc = "demo_quick"
    /\ \E outcome \in Outcomes :
         LET r == ExecuteQuickQuery(outcome)
         IN /\ DemoStep(<<[msg |-> "Quick Query Demo"]>>, r, "demo_dataset")
            /\ raised' = r.raised
            /\ sent' = sent \o r.sent
    /\ UNCHANGED <<credential_raised, env, config, client, warehouse_id,
                   demo_limit, prompted, result, stream, choice>>

\* lines 297-303
DemoDataset ==
    /\ pc = "demo_dataset"
    /\ LET parsed == ParseInt(DemoLimitText(env))
       IN IF ~parsed.ok
          THEN \* ValueError, before anything of the step is printed
               /\ DemoStep(<<>>, Raised("other", <<>>, <<>>), "done")
               /\ raised' = Some("other")
               /\ UNCHANGED <<demo_limit, sent>>
          ELSE \E outcome \in Outcomes :
                 LET r == StreamDatasetDemo(env.DEMO_QUERY, parsed.n, outcome)
                     header == <<[msg |-> "Query Dataset Demo",
                                  rows |-> IntToStr(parsed.n)]>>
                 IN /\ demo_limit' = Some(parsed.n)
                    /\ raised' = r.raised
                    /\ sent' = sent \o r.sent
                    /\ IF IsNone(r.raised)
                       THEN /\ console' = console \o header \o r.console
                                            \o <<[msg |-> "Demo completed successfully"]>>
                            /\ pc' = "done"
                            /\ exit_code' = Some(0)
                            /\ UNCHANGED failed
                       ELSE DemoStep(header, r, "done")
    /\ UNCHANGED <<credential_raised, env, config, client, warehouse_id,
                   prompted, result, stream, choice>>

(***************************************************************************)
(* The menu loop, lines 315-350.  At pc = "menu" the menu has been printed *)
(* and the program waits for the choice.                                   *)
(***************************************************************************)
\* A plausible slip: the loop handles a failure as the demo run does.
MenuExceptReturns(kind) ==
    [pc |-> "done", console |-> <<ErrorLine(kind)>>, exit_code |-> Some(1)]

\* A plausible slip: the failure is swallowed without a word.
MenuExceptSilent(kind) ==
    [pc |-> "menu", console |-> MenuLines, exit_code |-> None]

\* the except clauses of the loop: print, go round again
MenuExcept(kind) ==
    [pc |-> "menu", console |-> <<ErrorLine(kind)>> \o MenuLines, exit_code |-> None]

\* the rest of an iteration once the chosen function has raised or returned
MenuStep(before, r) ==
    /\ raised' = r.raised
    /\ IF IsNone(r.raised)
       THEN /\ console' = before \o r.console \o MenuLines
            /\ pc' = "menu"
            /\ UNCHANGED <<exit_code, failed>>
       ELSE LET handled == MenuExcept(Get(r.raised))
            IN /\ console' = before \o r.console \o handled.console
               /\ pc' = handled.pc
               /\ exit_code' = handled.exit_code
               /\ failed' = failed \cup {IF r.sent # <<>> THEN "query" ELSE "step"}

\* what every choice but 6 and 2 does, given the function it calls
MenuCall(c, asked, r) ==
    /\ pc = "menu"
    /\ choice' = Some(c)
    /\ prompted' = {"choice"} \cup asked
    /\ sent' = r.sent
    /\ stream' = NoStream
    /\ MenuStep(<<>>, r)
    /\ UNCHANGED <<credential_raised, env, config, client, warehouse_id,
                   demo_limit, result>>

\* choice 1
MenuQuickQuery ==
    \E outcome \in Outcomes : MenuCall("1", {}, ExecuteQuickQuery(outcome))

\* choice 3
MenuExploreTables ==
    \E outcome \in Outcomes : MenuCall("3", {}, ExploreTables(outcome))

\* choice 4
MenuCustomQuery ==
    \E outcome \in Outcomes, typed \in SqlAnswers :
        MenuCall("4", {"SQL query"}, ExecuteCustomQuery(typed, outcome))

\* choice 5
MenuConfigurationInfo ==
    \E fails \in BOOLEAN :
        MenuCall("5", {}, ShowConfigurationInfo(Get(config), Get(warehouse_id), fails))

\* choice 6
MenuExit ==
    /\ pc = "menu"
    /\ choice' = Some("6")
    /\ prompted' = {"choice"}
    /\ console' = <<[msg |-> "Goodbye!"]>>
    /\ pc' = "done"
    /\ exit_code' = Some(0)
    /\ raised' = None
    /\ sent' = <<>>
    /\ stream' = NoStream
    /\ UNCHANGED <<credential_raised, env, config, client, warehouse_id,
                   demo_limit, result, failed>>

(***************************************************************************)
(* stream_dataset, choice 2: lines 97-113 start the stream, the loop of    *)
(* lines 115-117 takes one row at a time, lines 119-120 report.  The       *)
(* stream is the client's: it may yield any number of rows, and raise      *)
(* instead of yielding.  stream.yielded counts what the client yielded,    *)
(* stream.completed is the progress bar's count of completed steps.        *)
(***************************************************************************)
StreamStart ==
    /\ pc = "menu"
    /\ \E limit \in LimitAnswers :
         LET sql == Sql(TripsSqlText, IntToStr(limit))
         IN /\ stream' = [limit |-> limit, completed |-> 0, row_count |-> 0,
                          yielded |-> 0]
            /\ console' = <<[msg |-> "Streaming", sql |-> sql]>>
            /\ sent' = <<sql>>
    /\ choice' = Some("2")
    /\ prompted' = {"choice", "rows to stream"}
    /\ raised' = None
    /\ pc' = "streaming"
    /\ UNCHANGED <<credential_raised, env, config, client, warehouse_id,
                   demo_limit, result, exit_code, failed>>

\* A plausible slip: the bar is set to the limit instead of advanced.
StreamBodyJumps(st) ==
    [st EXCEPT !.row_count = @ + 1, !.completed = st.limit]

\* the body of the for loop: row_count += 1; progress.update(task, advance=1)
StreamBody(st) ==
    [st EXCEPT !.row_count = @ + 1, !.completed = @ + 1]

StreamRow ==
    /\ pc = "streaming"
    /\ stream.yielded < MaxStream
    /\ stream' = StreamBody([stream EXCEPT !.yielded = @ + 1])
    /\ UNCHANGED <<credential_raised, env, pc, config, client, warehouse_id,
                   demo_limit, console, prompted, sent, result, exit_code,
                   failed, raised, choice>>

\* line 120
StreamedLine(st) == [a |-> st.row_count, msg |-> "Streamed rows"]

StreamEnd ==
    /\ pc = "streaming"
    /\ MenuStep(console, Returned(<<StreamedLine(stream)>>, <<>>, None))
    /\ UNCHANGED <<credential_raised, env, config, client, warehouse_id,
                   demo_limit, prompted, sent, result, stream, choice>>

StreamRaise ==
    /\ pc = "streaming"
    /\ \E kind \in ExceptionKinds : MenuStep(console, Raised(kind, <<>>, sent))
    /\ UNCHANGED <<credential_raised, env, config, client, warehouse_id,
                   demo_limit, prompted, sent, result, stream, choice>>

Next ==
    \/ Configure
    \/ GetWarehouseId
    \/ DemoConfigurationInfo
    \/ DemoQuickQuery
    \/ DemoDataset
    \/ MenuQuickQuery
    \/ MenuExploreTables
    \/ MenuCustomQuery
    \/ MenuConfigurationInfo
    \/ MenuExit
    \/ StreamStart
    \/ StreamRow
    \/ StreamEnd
    \/ StreamRaise

Spec == Init /\ [][Next]_vars

(***************************************************************************)
(* display_results_table on its own: any result of up to MaxCols columns   *)
(* and MaxRows rows, with any cell value of CellValues in the first or the *)
(* last row.                                                               *)
(***************************************************************************)
CellValues ==
    {NoneValue} \cup {StrValue(Text(n)) : n \in 0..MaxStrLen}
                \cup {IntValue(n) : n \in {0, -12, 1234}}

DisplayResults ==
    {MakeResult(nc, nr, v, at) :
        nc \in 0..MaxCols, nr \in 0..MaxRows, v \in CellValues, at \in {1, MaxRows}}

NoEnvironment ==
    [DATABRICKS_WORKSPACE_URL |-> None, DATABRICKS_TOKEN |-> None,
     DEMO_MODE |-> None, DATABRICKS_WAREHOUSE_ID |-> None, DEMO_QUERY |-> None,
     DEMO_LIMIT |-> None]

InitDisplay ==
    /\ env = NoEnvironment
    /\ pc = "display"
    /\ result \in {Some(r) : r \in DisplayResults}
    /\ InitCommon

Display ==
    /\ pc = "display"
    /\ console' = DisplayResultsTable(Get(result))
    /\ pc' = "displayed"
    /\ UNCHANGED <<env, config, client, warehouse_id, prompted, sent, result, stream,
                   exit_code, failed, raised, choice, demo_limit, credential_raised>>

NextDisplay == Display

SpecDisplay == InitDisplay /\ [][NextDisplay]_vars

(***************************************************************************)
(* The properties.                                                         *)
(***************************************************************************)
Range(seq) == {seq[i] : i \in DOMAIN seq}
Last(seq) == seq[Len(seq)]
Lines(m) == {i \in DOMAIN console : console[i].msg = m}
DemoMode == env.DEMO_MODE = Some("true")
ConfigurationFailed == "configuration" \in failed

\* C1, as claimed: the process ends with 0 when nothing failed and with 1
\* when the configuration or a query failed, in demo mode and in the menu
\* loop alike.
ExitCodeOneOnAnyFailure ==
    pc = "done" =>
        /\ ({"configuration", "query"} \cap failed # {} => exit_code = Some(1))
        /\ (failed = {} => exit_code = Some(0))

\* C1, amended: the process ends with 1 when the configuration fails or, in
\* demo mode, when a step of the demo fails, and with 0 otherwise; the menu
\* loop ends only at choice 6, with 0, whether or not a query failed before.
ExitCodeByMode ==
    pc = "done" =>
        /\ exit_code = Some(IF ConfigurationFailed \/ (DemoMode /\ failed # {})
                            THEN 1 ELSE 0)
        /\ (~DemoMode /\ ~ConfigurationFailed => choice = Some("6"))

ExitCodeByModeWitness ==
    /\ pc = "done" /\ ~DemoMode /\ "query" \in failed /\ exit_code = Some(0)

\* what a step taken from the menu or from the streaming loop keeps
MenuLoopStep ==
    pc \in {"menu", "streaming"} =>
        /\ client' = client /\ config' = config /\ warehouse_id' = warehouse_id
        /\ (raised' # None =>
              /\ ErrorLine(Get(raised')) \in Range(console')
              /\ Last(console') = Last(MenuLines)
              /\ pc' = "menu"
              /\ exit_code' = None)
        /\ (pc' = "done" => choice' = Some("6") /\ exit_code' = Some(0))

\* C2: in the menu loop a failure of the chosen action is reported and the
\* menu is presented again, with the same client, configuration and
\* warehouse ID; the loop ends only at choice 6, and main then returns 0.
MenuLoopContinues == [][MenuLoopStep]_vars

MenuLoopContinuesWitness ==
    /\ pc = "menu" /\ raised = Some("databricks") /\ choice = Some("4")
    /\ Last(console) = Last(MenuLines)

\* C3: in demo mode the steps run in the order configuration info, quick
\* query, dataset query; a step that raises (a non-integer DEMO_LIMIT
\* included) is reported once, nothing runs after it, the completion line is
\* not printed and main returns 1.
DemoStopsAtFirstFailure ==
    (DemoMode /\ ~ConfigurationFailed) =>
        /\ \A m \in {"Configuration Info", "Quick Query Demo", "Query Dataset Demo",
                     "Demo completed successfully"} : Cardinality(Lines(m)) <= 1
        /\ \A i \in Lines("Quick Query Demo") :
               \E j \in Lines("Configuration Info") : j < i
        /\ \A i \in Lines("Query Dataset Demo") :
               \E j \in Lines("Quick Query Demo") : j < i
        /\ \A i \in Lines("Demo completed successfully") :
               \E j \in Lines("Query Dataset Demo") : j < i
        /\ (raised = None => \A i \in DOMAIN console : console[i] \notin ErrorLines)
        /\ (raised # None =>
              /\ Cardinality({i \in DOMAIN console : console[i] \in ErrorLines}) = 1
              /\ Last(console) = ErrorLine(Get(raised))
              /\ Lines("Demo completed successfully") = {}
              /\ pc = "done"
              /\ exit_code = Some(1))
        /\ (pc = "done" /\ ~ParseInt(DemoLimitText(env)).ok => exit_code = Some(1))

DemoStopsAtFirstFailureWitness ==
    /\ DemoMode /\ pc = "done" /\ raised = Some("auth")
    /\ Lines("Quick Query Demo") # {} /\ Lines("Query Dataset Demo") = {}

\* C4: in demo mode the program never issues a prompt.
DemoModeNeverPrompts == DemoMode => prompted = {}

\* C5: of a result with at least one column and N >= 1 rows the table shows
\* the first 10 rows in their order, with "Showing 10 of N rows", when
\* N > 10, and all N rows, without that line, otherwise.
TableShowsFirstTenRows ==
    (pc = "displayed" /\ Get(result).columns # <<>> /\ Get(result).rows # <<>>) =>
        LET rows == Get(result).rows
            n == Len(rows)
            table == console[1]
        IN /\ table.msg = "table"
           /\ Len(table.body) = (IF n > 10 THEN 10 ELSE n)
           /\ \A r \in DOMAIN table.body : table.body[r] = RenderRow(rows[r], table.header)
           /\ (n > 10 => [a |-> 10, b |-> n, msg |-> "Showing of rows"] \in Range(console))
           /\ (n <= 10 => Lines("Showing of rows") = {})

TableShowsFirstTenRowsWitness ==
    /\ pc = "displayed" /\ Get(result).columns # <<>> /\ Len(Get(result).rows) > 10
    /\ Lines("Showing of rows") # {}

\* the cells of the table printed, each with the value it renders
ShownCells ==
    IF pc = "displayed" /\ console # <<>> /\ console[1].msg = "table"
    THEN {[value |-> RowGet(Get(result).rows[r], console[1].header[c][1]),
           cell |-> console[1].body[r][c]] :
             r \in DOMAIN console[1].body, c \in DOMAIN console[1].header}
    ELSE {}

\* C6: a cell whose value is None or "" shows NULL; a value of 1 to 30
\* characters is shown unchanged; a longer one shows its first 27 characters
\* and "...", 30 characters in all.
CellsAreCutToThirty ==
    \A x \in ShownCells :
        IF x.value = NoneValue \/ x.value = StrValue(<<>>)
        THEN x.cell = NullCell
        ELSE LET str == StrOf(x.value)
             IN /\ Len(x.cell.text) <= 30
                /\ (Len(str) > 30 =>
                      /\ x.cell.text = SubSeq(str, 1, 27) \o <<Dot, Dot, Dot>>
                      /\ Len(x.cell.text) = 30)
                /\ (Len(str) >= 1 /\ Len(str) <= 30 => x.cell.text = str)

CellsAreCutToThirtyWitness ==
    \E x \in ShownCells : x.value.t = "str" /\ Len(x.value.s) > 30

CredentialOrToken ==
    config # None =>
        LET c == Get(config)
        IN /\ (c.credential # None) # (~Falsy(c.access_token))
           /\ (DemoMode => c.credential = Some("InteractiveBrowserCredential"))
           /\ (~DemoMode =>
                 \/ c.credential = Some("DefaultAzureCredential") /\ ~credential_raised
                 \/ /\ c.credential = None
                    /\ credential_raised
                    /\ IF Falsy(env.DATABRICKS_TOKEN)
                       THEN /\ Get(c.access_token) \in TokenAnswers
                            /\ (pc = "warehouse" => "access token" \in prompted)
                       ELSE /\ c.access_token = env.DATABRICKS_TOKEN
                            /\ "access token" \notin prompted)

CredentialOrTokenWitness ==
    /\ config # None /\ Get(config).credential = None
    /\ Falsy(env.DATABRICKS_TOKEN) /\ pc = "warehouse"

\* C9: while stream_dataset runs, the row counter and the progress bar both
\* equal the number of rows the stream has yielded; when the stream ends the
\* count reported is the number of rows yielded, and when it raises no count
\* is reported.
StreamCountsRows ==
    /\ (pc = "streaming" =>
          stream.row_count = stream.yielded /\ stream.completed = stream.yielded)
    /\ (pc = "menu" /\ choice = Some("2") /\ raised = None =>
          /\ Cardinality(Lines("Streamed rows")) = 1
          /\ \A i \in Lines("Streamed rows") : console[i].a = stream.yielded)
    /\ (pc = "menu" /\ choice = Some("2") /\ raised # None =>
          Lines("Streamed rows") = {})

StreamCountsRowsWitness ==
    /\ pc = "menu" /\ choice = Some("2") /\ raised = None /\ stream.yielded >= 2
    /\ Lines("Streamed rows") # {}

\* the number of rows in what display_results_table printed at line i
RowsRenderedAt(i) ==
    IF i \in DOMAIN console /\ console[i].msg = "table" THEN Len(console[i].body)
    ELSE 0

\* C10: the number in the "First N rows:" line of stream_dataset_demo is the
\* number of rows the table below it shows.
FirstRowsLineMatchesTable ==
    \A i \in Lines("First rows") : console[i].a = RowsRenderedAt(i + 1)

====
